---- MODULE Spec2Model ----
(***************************************************************************)
(* Connection-lifecycle managers of FastAPI-core:                          *)
(*   app/core/database.py      DatabaseManager, get_db                     *)
(*   app/core/redis_client.py  RedisManager, get_redis, get_redis_context  *)
(*   app/main.py               lifespan, GET /health                       *)
(*   app/core/config.py        Settings                                    *)
(* Coroutines are cooperative: a step of the model runs one coroutine from *)
(* one await that suspends to the next one.  The outcome of every call     *)
(* into SQLAlchemy / redis-py is an input chosen by the environment.       *)
(***************************************************************************)
EXTENDS Integers, Sequences, FiniteSets, TLC

\* ---------------------------------------------------------------- bounds
NumTasks == 2
MaxEngines == 2
MaxPools == 2
\* SECRET_KEY lengths tried, around the required 32
MinKeyLen == 28
MaxKeyLen == 36
\* REDIS_DB indexes tried
MaxRedisDb == 1

Tasks == 1..NumTasks

\* Settings.ENVIRONMENT (config.py:13)
Environments == {"development", "staging", "production"}

VARIABLES
    environment,    \* settings.ENVIRONMENT as the lifespan hook read it ("unread" before)
    db,             \* db_manager: engine, session_factory, scoped_session, initialized
    engines,        \* every AsyncEngine created so far: "live" | "disposed"
    rm,             \* redis_manager: pool, client, initialized
    pools,          \* every ConnectionPool created so far: "live" | "closed"
    clients,        \* every Redis client created so far: [pool, closed]
    ls,             \* where the lifespan hook of main.py stands
    pc,             \* pc[t]: where the coroutine of task t is suspended
    op,             \* op[t]: the operation task t runs (or ran last)
    res,            \* res[t]: how that operation ended
    scope,          \* scope[t]: the session scope of get_session() task t is in
    hist,           \* per manager, the calls made so far: "uninit" | "init_ok" | "closed"
    open_sessions,  \* sessions created by session_factory() and not yet closed
    ls_log,         \* the calls the lifespan hook has made, in order, with "raised"
                    \* after a call that raised
    health_status,  \* health_status[t]: the payload the GET /health handler of task t builds
    checks,         \* checks[t]: how db.execute() and redis.ping() of that handler ended
    environ,        \* the process environment Settings() is built from
    settings,       \* what get_settings() has cached: the Settings object, if any
    redis_dsn       \* what the property Settings.REDIS_DSN returned last

\* The state of the health route, and of the configuration.
hrvars == <<health_status, checks>>

cfgvars == <<environ, settings, redis_dsn>>

vars == <<environment, db, engines, rm, pools, clients, ls, pc, op, res, scope,
          hist, open_sessions, ls_log, health_status, checks, environ, settings,
          redis_dsn>>

\* ------------------------------------------------------- config.py: Settings
\* A str is the sequence of its characters; an Optional[str] is None or a str.
None == [some |-> FALSE, val |-> <<>>]

Some(v) == [some |-> TRUE, val |-> v]

\* A key of n characters.
Key(n) == [i \in 1..n |-> "k"]

\* config.py:42  the default SECRET_KEY has 41 characters
DefaultKeyLen == 41

\* config.py:32-35  the defaults of the Redis fields
Localhost == <<"l", "o", "c", "a", "l", "h", "o", "s", "t">>

DefaultRedisPort == 6379

\* The values REDIS_PASSWORD is tried with: unset, empty, plain, and one that
\* holds the characters of the URL syntax.
Passwords ==
    {None, Some(<<>>), Some(<<"p", "w">>), Some(<<"a", "@", "b", ":", "c">>)}

\* The process environments Settings() is tried with.
Environs ==
    [ENVIRONMENT : Environments,
     SECRET_KEY : {Key(n) : n \in MinKeyLen..MaxKeyLen},
     REDIS_PASSWORD : Passwords,
     REDIS_HOST : {Localhost},
     REDIS_PORT : {DefaultRedisPort},
     REDIS_DB : 0..MaxRedisDb]

\* config.py:13-45  every field at its default
DefaultEnviron ==
    [ENVIRONMENT |-> "development", SECRET_KEY |-> Key(DefaultKeyLen),
     REDIS_PASSWORD |-> None, REDIS_HOST |-> Localhost,
     REDIS_PORT |-> DefaultRedisPort, REDIS_DB |-> 0]

\* config.py:44  min_length=32
SecretKeyMinLength == 32

\* config.py:41-45  the constraint of the field, whatever the environment
SecretKeyFieldOk(v) == Len(v) >= SecretKeyMinLength

\* config.py:66  len(v) < 32
ProductionKeyLength == 32

ValidateSecretKeyOffByOne(env, v) ==
    env = "production" /\ Len(v) <= ProductionKeyLength

\* config.py:60-68  validate_secret_key raises ValueError
ValidateSecretKeyRaises(env, v) ==
    env = "production" /\ Len(v) < ProductionKeyLength

\* Settings(): the field constraint is checked first, then the validator.
SettingsConstructs(e) ==
    /\ SecretKeyFieldOk(e.SECRET_KEY)
    /\ ~ValidateSecretKeyRaises(e.ENVIRONMENT, e.SECRET_KEY)

\* get_settings() has not been called yet.
NoSettings == [state |-> "uncached", obj |-> DefaultEnviron]

\* config.py:78-81  get_settings(): lru_cache keeps the object once built, and
\* keeps nothing when Settings() raises.
GetSettingsResult(st, e) ==
    IF st.state = "ok" THEN st
    ELSE IF SettingsConstructs(e) THEN [state |-> "ok", obj |-> e]
    ELSE [state |-> "ValidationError", obj |-> DefaultEnviron]

Digits == <<"0", "1", "2", "3", "4", "5", "6", "7", "8", "9">>

RECURSIVE Str(_)
\* str(n) of an int n >= 0, as the f-string formats it
Str(n) ==
    IF n < 10 THEN <<Digits[n + 1]>>
    ELSE Str(n \div 10) \o <<Digits[(n % 10) + 1]>>

RedisScheme == <<"r", "e", "d", "i", "s", ":", "/", "/">>

PasswordIsNotNone(p) == p.some

\* config.py:56  if self.REDIS_PASSWORD:  (None and "" are both false)
PasswordIsSet(p) == p.some /\ p.val # <<>>

\* config.py:53-58  the property REDIS_DSN
REDIS_DSN(s) ==
    IF PasswordIsSet(s.REDIS_PASSWORD)
    THEN RedisScheme \o <<":">> \o s.REDIS_PASSWORD.val \o <<"@">> \o s.REDIS_HOST
         \o <<":">> \o Str(s.REDIS_PORT) \o <<"/">> \o Str(s.REDIS_DB)
    ELSE RedisScheme \o s.REDIS_HOST \o <<":">> \o Str(s.REDIS_PORT) \o <<"/">>
         \o Str(s.REDIS_DB)

\* ------------------------------------------------------------ initial state
\* DatabaseManager.__init__
DatabaseManagerNew ==
    [engine |-> 0, session_factory |-> 0, scoped_session |-> 0,
     initialized |-> FALSE]

\* RedisManager.__init__
RedisManagerNew == [pool |-> 0, client |-> 0, initialized |-> FALSE]

NoRes == [raised |-> "none", value |-> "none", handle |-> 0]

NoScope ==
    [session |-> 0, commits |-> 0, rollbacks |-> 0, closes |-> 0,
     body |-> "none", commit |-> "none", rollback |-> "none", close |-> "none",
     exc |-> "none"]

\* No GET /health handler has run in the task.
NoHealthStatus ==
    [status |-> "none", database |-> "none", redis |-> "none", environment |-> "none"]

NoChecks == [db |-> "none", redis |-> "none"]

\* The managers, the lifespan hook and the tasks before anything ran.
InitApp ==
    /\ environment = "unread"
    /\ db = DatabaseManagerNew
    /\ engines = <<>>
    /\ rm = RedisManagerNew
    /\ pools = <<>>
    /\ clients = <<>>
    /\ ls = "new"
    /\ pc = [t \in Tasks |-> "idle"]
    /\ op = [t \in Tasks |-> "none"]
    /\ res = [t \in Tasks |-> NoRes]
    /\ scope = [t \in Tasks |-> NoScope]
    /\ hist = [db |-> "uninit", redis |-> "uninit"]
    /\ open_sessions = 0
    /\ ls_log = <<>>
    /\ health_status = [t \in Tasks |-> NoHealthStatus]
    /\ checks = [t \in Tasks |-> NoChecks]

Init ==
    /\ InitApp
    /\ environ = DefaultEnviron
    /\ settings = NoSettings
    /\ redis_dsn = <<>>

\* ------------------------------------------------------------ scheduling
\* The lifespan hook is between two of its awaits.
LifespanRunning == ls \notin {"new", "serving", "failed", "stopped"}

\* A new call may begin: always when calls interleave, otherwise only when no
\* other coroutine is suspended inside a call.
CanStart(t, conc) ==
    /\ pc[t] = "idle"
    /\ conc \/ (~LifespanRunning /\ \A u \in Tasks : pc[u] = "idle")

Begin(t, o) ==
    /\ op' = [op EXCEPT ![t] = o]
    /\ scope' = [scope EXCEPT ![t] = NoScope]

\* The call of task t returns (raised = "none") or raises.
Return(t, raised, value, handle) ==
    /\ pc' = [pc EXCEPT ![t] = "idle"]
    /\ res' = [res EXCEPT ![t] = [raised |-> raised, value |-> value, handle |-> handle]]

\* The call of task t suspends at an await; handle is what it has created.
Suspend(t, at, handle) ==
    /\ pc' = [pc EXCEPT ![t] = at]
    /\ res' = [res EXCEPT ![t] = [NoRes EXCEPT !.handle = handle]]

\* hist[m] sums up the calls made on manager m:
\*   "uninit"   its latest initialize() raised, or there was none
\*   "init_ok"  its latest initialize() returned, and no close() was called since
\*   "closed"   its latest initialize() returned, and close() was called since
NoteInit(h, m, raised) ==
    [h EXCEPT ![m] = IF raised = "none" THEN "init_ok" ELSE "uninit"]

NoteClose(h, m) == [h EXCEPT ![m] = IF @ = "uninit" THEN "uninit" ELSE "closed"]

\* ------------------------------------------------- DatabaseManager.initialize
\* create_async_engine parses the DSN and loads the driver, and may raise;
\* async_sessionmaker and async_scoped_session only store their arguments.
DbFailPoints == {"none", "engine"}

\* database.py:35  if self._initialized: ... return
DbAlreadyInitialized(m) == m.initialized

\* database.py:65  self._initialized = True
DbMarkInitialized(m) == [m EXCEPT !.initialized = TRUE]

\* initialize(): no await inside, so it runs in one step.  fail names the
\* constructor that raises, if any.
DbInitialize(m, es, fail) ==
    IF DbAlreadyInitialized(m)
    THEN [m |-> m, engines |-> es, raised |-> "none", created |-> 0]   \* :36-37
    ELSE IF fail = "engine"
    THEN [m |-> m, engines |-> es, raised |-> "ConstructionError", created |-> 0]
    ELSE
      LET e  == Len(es) + 1
          m1 == [m EXCEPT !.engine = e, !.session_factory = e,
                          !.scoped_session = e]
      IN  [m |-> DbMarkInitialized(m1), engines |-> Append(es, "live"),
           raised |-> "none", created |-> e]

\* Bound: at most MaxEngines engines are ever created.
DbMayCreate(m, fail) ==
    DbAlreadyInitialized(m) \/ fail = "engine" \/ Len(engines) < MaxEngines

DbInitializeCall(t, fail, conc) ==
    /\ CanStart(t, conc)
    /\ DbMayCreate(db, fail)
    /\ LET r == DbInitialize(db, engines, fail)
       IN  /\ db' = r.m
           /\ engines' = r.engines
           /\ hist' = NoteInit(hist, "db", r.raised)
           /\ Return(t, r.raised,
                     IF DbAlreadyInitialized(db) THEN "warned" ELSE "none", r.created)
    /\ Begin(t, "db_initialize")
    /\ UNCHANGED <<environment, rm, pools, clients, ls, open_sessions, ls_log>>
    /\ UNCHANGED <<hrvars, cfgvars>>

\* ------------------------------------------------------ DatabaseManager.close
Outcomes == {"ok", "err"}

DbHasEngineAlways(m) == TRUE

\* database.py:74  if self.engine:
DbHasEngine(m) == m.engine # 0

\* database.py:74-75: the call of engine.dispose(); it suspends.
DbCloseBegin(m, es, o) ==
    IF DbHasEngine(m)
    THEN IF o = "ok"
         THEN [engines |-> [es EXCEPT ![m.engine] = "disposed"], at |-> "dispose_ok"]
         ELSE [engines |-> es, at |-> "dispose_err"]
    ELSE [engines |-> es, at |-> "done"]

DbCloseEndFlagKept(m) == m

\* database.py:76  self._initialized = False
DbCloseEnd(m) == [m EXCEPT !.initialized = FALSE]

DbCloseCall(t, o, conc) ==
    /\ CanStart(t, conc)
    /\ LET r == DbCloseBegin(db, engines, o)
       IN  /\ engines' = r.engines
           /\ IF r.at = "done"
              THEN Return(t, "none", "none", 0)
              ELSE Suspend(t, IF r.at = "dispose_ok" THEN "dc_dispose_ok"
                                                     ELSE "dc_dispose_err", 0)
    /\ hist' = NoteClose(hist, "db")
    /\ Begin(t, "db_close")
    /\ UNCHANGED <<environment, db, rm, pools, clients, ls, open_sessions, ls_log>>
    /\ UNCHANGED <<hrvars, cfgvars>>

DbCloseResume(t) ==
    /\ pc[t] \in {"dc_dispose_ok", "dc_dispose_err"}
    /\ IF pc[t] = "dc_dispose_ok"
       THEN /\ db' = DbCloseEnd(db)
            /\ Return(t, "none", "none", 0)
       ELSE /\ db' = db
            /\ Return(t, "DisposeError", "none", 0)
    /\ UNCHANGED <<environment, engines, rm, pools, clients, ls, op, scope, hist,
                   open_sessions, ls_log>>
    /\ UNCHANGED <<hrvars, cfgvars>>

\* ------------------------------------------------ DatabaseManager.get_session
\* The operations that open a get_session() scope:
\*   get_session      async with db_manager.get_session() in caller code
\*   get_db           the dependency (database.py:118-121)
\*   db_health_check  DatabaseManager.health_check (database.py:96-104)
ScopeOps == {"get_session", "get_db", "db_health_check"}

\* database.py:82  if not self._initialized: raise RuntimeError
GetSessionRefuses(m) == ~m.initialized

\* How an operation that ran a scope ends, the scope having let exc through.
\* health_check catches Exception and answers a bool (database.py:98-104).
ScopeReturn(t, exc) ==
    IF op[t] = "db_health_check" /\ exc # "CancelledError"
    THEN Return(t, "none", IF exc = "none" THEN "True" ELSE "False", 0)
    ELSE Return(t, exc, "none", 0)

GetSessionEnter(t, o, conc) ==
    /\ CanStart(t, conc)
    /\ o \in ScopeOps
    /\ op' = [op EXCEPT ![t] = o]
    /\ IF GetSessionRefuses(db)
       THEN /\ pc' = [pc EXCEPT ![t] = "idle"]
            /\ res' = [res EXCEPT ![t] =
                        IF o = "db_health_check"
                        THEN [raised |-> "none", value |-> "False", handle |-> 0]
                        ELSE [raised |-> "RuntimeError", value |-> "none", handle |-> 0]]
            /\ scope' = [scope EXCEPT ![t] = NoScope]
            /\ open_sessions' = open_sessions
       ELSE \* database.py:85  session = self.session_factory(); yield session
            /\ pc' = [pc EXCEPT ![t] = "gs_yield"]
            /\ res' = [res EXCEPT ![t] =
                        [raised |-> "none", value |-> "session",
                         handle |-> db.session_factory]]
            /\ scope' = [scope EXCEPT ![t] =
                          [NoScope EXCEPT !.session = db.session_factory]]
            /\ open_sessions' = open_sessions + 1
    /\ UNCHANGED <<environment, db, engines, rm, pools, clients, ls, hist, ls_log>>
    /\ UNCHANGED <<hrvars, cfgvars>>

\* What the caller's unit of work does inside the scope.
BodyOutcomes == {"ok", "Exception", "BaseException"}

CallCloseSkipped(sc) == sc

\* database.py:94  finally: await session.close()
CallClose(sc) == [sc EXCEPT !.closes = @ + 1]

\* database.py:89-90  except Exception: await session.rollback()
CallRollback(sc) == [sc EXCEPT !.rollbacks = @ + 1]

\* database.py:88  await session.commit()
CallCommit(sc) == [sc EXCEPT !.commits = @ + 1]

AfterBodyNoRollback(sc, b) ==
    IF b = "ok"
    THEN [sc |-> CallCommit([sc EXCEPT !.body = b]), at |-> "gs_commit"]
    ELSE [sc |-> CallClose([sc EXCEPT !.body = b,
                              !.exc = IF b = "Exception" THEN "BodyError"
                                      ELSE "CancelledError"]),
          at |-> "gs_close"]

\* database.py:87-94: the body ended; control is back in the generator.
AfterBody(sc, b) ==
    IF b = "ok"
    THEN [sc |-> CallCommit([sc EXCEPT !.body = b]), at |-> "gs_commit"]
    ELSE IF b = "Exception"
    THEN [sc |-> CallRollback([sc EXCEPT !.body = b, !.exc = "BodyError"]),
          at |-> "gs_rollback"]
    ELSE [sc |-> CallClose([sc EXCEPT !.body = b, !.exc = "CancelledError"]),
          at |-> "gs_close"]

\* database.py:88-90: commit() returned or raised.
AfterCommit(sc, o) ==
    IF o = "ok"
    THEN [sc |-> CallClose([sc EXCEPT !.commit = o]), at |-> "gs_close"]
    ELSE [sc |-> CallRollback([sc EXCEPT !.commit = o, !.exc = "CommitError"]),
          at |-> "gs_rollback"]

\* database.py:90-94: rollback() returned (raise re-raises) or raised.
AfterRollback(sc, o) ==
    IF o = "ok"
    THEN [sc |-> CallClose([sc EXCEPT !.rollback = o]), at |-> "gs_close"]
    ELSE [sc |-> CallClose([sc EXCEPT !.rollback = o, !.exc = "RollbackError"]),
          at |-> "gs_close"]

\* database.py:94: close() returned or raised; the scope is left.
AfterClose(sc, o) ==
    IF o = "ok" THEN [sc EXCEPT !.close = o]
    ELSE [sc EXCEPT !.close = o, !.exc = "CloseError"]

ScopeBody(t, b) ==
    /\ pc[t] = "gs_yield"
    /\ b \in BodyOutcomes
    /\ op[t] = "db_health_check" => b # "BaseException"
    /\ LET r == AfterBody(scope[t], b)
       IN  /\ scope' = [scope EXCEPT ![t] = r.sc]
           /\ pc' = [pc EXCEPT ![t] = r.at]
           /\ open_sessions' = open_sessions - (r.sc.closes - scope[t].closes)
    /\ UNCHANGED <<environment, db, engines, rm, pools, clients, ls, op, res, hist,
                   ls_log>>
    /\ UNCHANGED <<hrvars, cfgvars>>

ScopeCommit(t, o) ==
    /\ pc[t] = "gs_commit"
    /\ LET r == AfterCommit(scope[t], o)
       IN  /\ scope' = [scope EXCEPT ![t] = r.sc]
           /\ pc' = [pc EXCEPT ![t] = r.at]
           /\ open_sessions' = open_sessions - (r.sc.closes - scope[t].closes)
    /\ UNCHANGED <<environment, db, engines, rm, pools, clients, ls, op, res, hist,
                   ls_log>>
    /\ UNCHANGED <<hrvars, cfgvars>>

ScopeRollback(t, o) ==
    /\ pc[t] = "gs_rollback"
    /\ LET r == AfterRollback(scope[t], o)
       IN  /\ scope' = [scope EXCEPT ![t] = r.sc]
           /\ pc' = [pc EXCEPT ![t] = r.at]
           /\ open_sessions' = open_sessions - (r.sc.closes - scope[t].closes)
    /\ UNCHANGED <<environment, db, engines, rm, pools, clients, ls, op, res, hist,
                   ls_log>>
    /\ UNCHANGED <<hrvars, cfgvars>>

ScopeClose(t, o) ==
    /\ pc[t] = "gs_close"
    /\ LET sc == AfterClose(scope[t], o)
       IN  /\ scope' = [scope EXCEPT ![t] = sc]
           /\ ScopeReturn(t, sc.exc)
    /\ UNCHANGED <<environment, db, engines, rm, pools, clients, ls, op, hist,
                   open_sessions, ls_log>>
    /\ UNCHANGED <<hrvars, cfgvars>>

\* ---------------------------------------------------- RedisManager.initialize
\* ConnectionPool.from_url parses the DSN, and may raise; Redis.from_pool only
\* stores the pool.
RedisFailPoints == {"none", "pool"}

RedisGuardMissing(m) == FALSE

\* redis_client.py:23  if self._initialized: ... return
RedisAlreadyInitialized(m) == m.initialized

\* redis_client.py:23-40: up to the await of client.ping().  fail names the
\* constructor that raises, if any.
RedisInitializeBegin(m, ps, cs, fail) ==
    IF RedisAlreadyInitialized(m)
    THEN [m |-> m, pools |-> ps, clients |-> cs, at |-> "done", created |-> 0]
    ELSE IF fail = "pool"
    THEN [m |-> m, pools |-> ps, clients |-> cs, at |-> "raised", created |-> 0]
    ELSE
      LET p == Len(ps) + 1
          c == Len(cs) + 1
      IN  [m |-> [m EXCEPT !.pool = p, !.client = c],
           pools |-> Append(ps, "live"),
           clients |-> Append(cs, [pool |-> p, closed |-> FALSE]),
           at |-> "ping", created |-> p]

\* redis_client.py:40-47: ping() returned or raised.
RedisInitializeEnd(m, o) ==
    IF o = "ok"
    THEN [m |-> [m EXCEPT !.initialized = TRUE], raised |-> "none"]
    ELSE [m |-> m, raised |-> "PingError"]

\* Bound: at most MaxPools pools are ever created.
RedisMayCreate(m, fail) ==
    RedisAlreadyInitialized(m) \/ fail = "pool" \/ Len(pools) < MaxPools

RedisInitializeCall(t, fail, conc) ==
    /\ CanStart(t, conc)
    /\ RedisMayCreate(rm, fail)
    /\ LET r == RedisInitializeBegin(rm, pools, clients, fail)
       IN  /\ rm' = r.m
           /\ pools' = r.pools
           /\ clients' = r.clients
           /\ IF r.at = "ping"
              THEN /\ Suspend(t, "ri_ping", r.created)
                   /\ hist' = hist
              ELSE /\ Return(t, IF r.at = "done" THEN "none" ELSE "ConstructionError",
                             IF r.at = "done" THEN "warned" ELSE "none", r.created)
                   /\ hist' = NoteInit(hist, "redis",
                                  IF r.at = "done" THEN "none" ELSE "ConstructionError")
    /\ Begin(t, "redis_initialize")
    /\ UNCHANGED <<environment, db, engines, ls, open_sessions, ls_log>>
    /\ UNCHANGED <<hrvars, cfgvars>>

RedisInitializePing(t, o) ==
    /\ pc[t] = "ri_ping"
    /\ LET r == RedisInitializeEnd(rm, o)
       IN  /\ rm' = r.m
           /\ hist' = NoteInit(hist, "redis", r.raised)
           /\ Return(t, r.raised, "none", res[t].handle)
    /\ UNCHANGED <<environment, db, engines, pools, clients, ls, op, scope,
                   open_sessions, ls_log>>
    /\ UNCHANGED <<hrvars, cfgvars>>

\* --------------------------------------------------------- RedisManager.close
\* redis_client.py:55  self._initialized = False
RedisCloseFlag(m) == [m EXCEPT !.initialized = FALSE]

\* redis_client.py:53-55, from "pool" or from "flag", up to the next await.
RedisCloseFromPool(m, ps, cs, o) ==
    IF m.pool # 0
    THEN IF o = "ok"
         THEN [m |-> m, pools |-> [ps EXCEPT ![m.pool] = "closed"], clients |-> cs,
               at |-> "pool_ok"]
         ELSE [m |-> m, pools |-> ps, clients |-> cs, at |-> "pool_err"]
    ELSE [m |-> RedisCloseFlag(m), pools |-> ps, clients |-> cs, at |-> "done"]

\* redis_client.py:51-55: close() from its first line up to the next await.
RedisCloseBegin(m, ps, cs, o) ==
    IF m.client # 0
    THEN IF o = "ok"
         THEN [m |-> m, pools |-> ps,
               clients |-> [cs EXCEPT ![m.client].closed = TRUE], at |-> "client_ok"]
         ELSE [m |-> m, pools |-> ps, clients |-> cs, at |-> "client_err"]
    ELSE RedisCloseFromPool(m, ps, cs, o)

\* close() resumed after the await it is suspended in.
RedisCloseContinue(m, ps, cs, at, o) ==
    IF at = "client_ok" THEN RedisCloseFromPool(m, ps, cs, o)
    ELSE IF at = "pool_ok"
    THEN [m |-> RedisCloseFlag(m), pools |-> ps, clients |-> cs, at |-> "done"]
    ELSE [m |-> m, pools |-> ps, clients |-> cs, at |-> "raised"]

\* The pc of a task suspended in close() at the await `at`.
RcPc(at) ==
    CASE at = "client_ok" -> "rc_client_ok"
      [] at = "client_err" -> "rc_client_err"
      [] at = "pool_ok" -> "rc_pool_ok"
      [] at = "pool_err" -> "rc_pool_err"

RcAt(p) ==
    CASE p = "rc_client_ok" -> "client_ok"
      [] p = "rc_client_err" -> "client_err"
      [] p = "rc_pool_ok" -> "pool_ok"
      [] p = "rc_pool_err" -> "pool_err"

RcError(at) == IF at = "client_err" THEN "ClientCloseError" ELSE "PoolCloseError"

RedisCloseCall(t, o, conc) ==
    /\ CanStart(t, conc)
    /\ LET r == RedisCloseBegin(rm, pools, clients, o)
       IN  /\ rm' = r.m
           /\ pools' = r.pools
           /\ clients' = r.clients
           /\ IF r.at = "done"
              THEN Return(t, "none", "none", 0)
              ELSE Suspend(t, RcPc(r.at), 0)
    /\ hist' = NoteClose(hist, "redis")
    /\ Begin(t, "redis_close")
    /\ UNCHANGED <<environment, db, engines, ls, open_sessions, ls_log>>
    /\ UNCHANGED <<hrvars, cfgvars>>

RedisCloseResume(t, o) ==
    /\ pc[t] \in {"rc_client_ok", "rc_client_err", "rc_pool_ok", "rc_pool_err"}
    /\ LET r == RedisCloseContinue(rm, pools, clients, RcAt(pc[t]), o)
       IN  /\ rm' = r.m
           /\ pools' = r.pools
           /\ clients' = r.clients
           /\ IF r.at = "done" THEN Return(t, "none", "none", 0)
              ELSE IF r.at = "raised"
              THEN Return(t, RcError(RcAt(pc[t])), "none", 0)
              ELSE Suspend(t, RcPc(r.at), 0)
    /\ UNCHANGED <<environment, db, engines, ls, op, scope, hist, open_sessions, ls_log>>
    /\ UNCHANGED <<hrvars, cfgvars>>

\* ------------------------------------------------------- the client accessors
GetClientRefusesClientOnly(m) == m.client = 0

\* redis_client.py:61 and :71  if not self._initialized or not self.client
GetClientRefuses(m) == ~m.initialized \/ m.client = 0

\* redis_client.py:119  if not redis_manager.client
GetRedisRefuses(m) == m.client = 0

\* get_client() and the get_redis dependency: no await, one step.
DirectOps == {"get_client", "get_redis"}

GetClientCall(t, o, conc) ==
    /\ CanStart(t, conc)
    /\ o \in DirectOps
    /\ IF (o = "get_client" /\ GetClientRefuses(rm))
          \/ (o = "get_redis" /\ GetRedisRefuses(rm))
       THEN Return(t, "RuntimeError", "none", 0)
       ELSE Return(t, "none", "client", rm.client)
    /\ Begin(t, o)
    /\ UNCHANGED <<environment, db, engines, rm, pools, clients, ls, hist,
                   open_sessions, ls_log>>
    /\ UNCHANGED <<hrvars, cfgvars>>

\* The operations that open a get_client_context() scope: the context manager
\* itself, get_redis_context (redis_client.py:125-129) and the wrappers
\* set_value / get_value / delete_key (redis_client.py:90-103).
ContextOps == {"get_client_context", "get_redis_context", "set_value", "get_value",
               "delete_key"}

GetClientContextEnter(t, o, conc) ==
    /\ CanStart(t, conc)
    /\ o \in ContextOps
    /\ IF GetClientRefuses(rm)
       THEN Return(t, "RuntimeError", "none", 0)
       ELSE \* redis_client.py:75  yield self.client
            /\ pc' = [pc EXCEPT ![t] = "cc_yield"]
            /\ res' = [res EXCEPT ![t] =
                        [raised |-> "none", value |-> "client", handle |-> rm.client]]
    /\ Begin(t, o)
    /\ UNCHANGED <<environment, db, engines, rm, pools, clients, ls, hist,
                   open_sessions, ls_log>>
    /\ UNCHANGED <<hrvars, cfgvars>>

\* redis_client.py:74-78: the body (for a wrapper, the awaited client command)
\* ended; an exception is logged and re-raised.
ClientContextBody(t, o) ==
    /\ pc[t] = "cc_yield"
    /\ pc' = [pc EXCEPT ![t] = "idle"]
    /\ res' = [res EXCEPT ![t].raised = IF o = "ok" THEN "none" ELSE "BodyError"]
    /\ UNCHANGED <<environment, db, engines, rm, pools, clients, ls, op, scope, hist,
                   open_sessions, ls_log>>
    /\ UNCHANGED <<hrvars, cfgvars>>

\* ---------------------------------------------------- RedisManager.health_check
\* redis_client.py:83  if self.client:
HealthHasClient(m) == m.client # 0

RedisHealthCheckCall(t, conc) ==
    /\ CanStart(t, conc)
    /\ IF HealthHasClient(rm)
       THEN Suspend(t, "rh_ping", 0)
       ELSE Return(t, "none", "False", 0)
    /\ Begin(t, "redis_health_check")
    /\ UNCHANGED <<environment, db, engines, rm, pools, clients, ls, hist,
                   open_sessions, ls_log>>
    /\ UNCHANGED <<hrvars, cfgvars>>

RedisHealthResultUncaught(o) == "True"

\* redis_client.py:84-88: ping() returned (True) or raised (caught).
RedisHealthResult(o) == IF o = "ok" THEN "True" ELSE "False"

RedisHealthCheckPing(t, o) ==
    /\ pc[t] = "rh_ping"
    /\ pc' = [pc EXCEPT ![t] = "idle"]
    /\ res' = [res EXCEPT ![t] =
                [raised |-> "none", value |-> RedisHealthResult(o), handle |-> 0]]
    /\ scope' = [scope EXCEPT ![t].body = o]
    /\ UNCHANGED <<environment, db, engines, rm, pools, clients, ls, op, hist,
                   open_sessions, ls_log>>
    /\ UNCHANGED <<hrvars, cfgvars>>

\* ------------------------------------------------------------ main.py lifespan
\* The lifespan hook may take its next step.
LifespanCanStart(conc) == conc \/ \A u \in Tasks : pc[u] = "idle"

StartupAbortTearsDown(log) == log \o <<"raised", "db_close", "redis_close">>

\* main.py:41-43  except Exception: the error is logged and raised again,
\* nothing else is called.
StartupAbort(log) == Append(log, "raised")

\* main.py:38  await redis_manager.initialize(), up to its await of ping().
LsRedisInitialize(fail, h, log) ==
    LET r == RedisInitializeBegin(rm, pools, clients, fail)
    IN  /\ RedisMayCreate(rm, fail)
        /\ ls_log' = IF r.at = "raised" THEN StartupAbort(Append(log, "redis_initialize"))
                      ELSE Append(log, "redis_initialize")
        /\ rm' = r.m
        /\ pools' = r.pools
        /\ clients' = r.clients
        /\ ls' = CASE r.at = "done" -> "serving"     \* main.py:40, 45
                   [] r.at = "raised" -> "failed"    \* main.py:41-43
                   [] r.at = "ping" -> "su_ping"
        /\ hist' = IF r.at = "ping" THEN h
                   ELSE NoteInit(h, "redis",
                                 IF r.at = "done" THEN "none" ELSE "ConstructionError")

CreatesSchemaAlways(env) == TRUE

\* main.py:33  if settings.ENVIRONMENT == "development":
CreatesSchema(env) == env = "development"

\* main.py:28-38: startup from its first line to the first await that suspends.
LsStartup(env, dbfail, rfail, conc) ==
    /\ ls = "new"
    /\ environment' = IF dbfail = "none" \/ DbAlreadyInitialized(db) THEN env ELSE "unread"
    /\ LifespanCanStart(conc)
    /\ DbMayCreate(db, dbfail)
    /\ LET r == DbInitialize(db, engines, dbfail)
       IN  /\ db' = r.m
           /\ engines' = r.engines
           /\ IF r.raised # "none"
              THEN /\ ls' = "failed"
                   /\ ls_log' = StartupAbort(Append(ls_log, "db_initialize"))
                   /\ hist' = NoteInit(hist, "db", r.raised)
                   /\ UNCHANGED <<rm, pools, clients>>
              ELSE IF CreatesSchema(env)
              THEN /\ ls' = "su_schema"
                   /\ ls_log' = ls_log \o <<"db_initialize", "create_all">>
                   /\ hist' = NoteInit(hist, "db", r.raised)
                   /\ UNCHANGED <<rm, pools, clients>>
              ELSE LsRedisInitialize(rfail, NoteInit(hist, "db", r.raised),
                                     Append(ls_log, "db_initialize"))
    /\ UNCHANGED <<pc, op, res, scope, open_sessions>>
    /\ UNCHANGED <<hrvars, cfgvars>>

\* main.py:34-38: create_all returned or raised.
LsSchema(o, rfail) ==
    /\ ls = "su_schema"
    /\ IF o = "ok"
       THEN LsRedisInitialize(rfail, hist, ls_log)
       ELSE /\ ls' = "failed"
            /\ ls_log' = StartupAbort(ls_log)
            /\ UNCHANGED <<rm, pools, clients, hist>>
    /\ UNCHANGED <<environment, db, engines, pc, op, res, scope, open_sessions>>
    /\ UNCHANGED <<hrvars, cfgvars>>

\* main.py:38-45: redis_manager.initialize() resumed from ping().
LsPing(o) ==
    /\ ls = "su_ping"
    /\ LET r == RedisInitializeEnd(rm, o)
       IN  /\ rm' = r.m
           /\ hist' = NoteInit(hist, "redis", r.raised)
           /\ ls' = IF r.raised = "none" THEN "serving" ELSE "failed"
           /\ ls_log' = IF r.raised = "none" THEN ls_log ELSE StartupAbort(ls_log)
    /\ UNCHANGED <<environment, db, engines, pools, clients, pc, op, res, scope,
                   open_sessions>>
    /\ UNCHANGED <<hrvars, cfgvars>>

\* The lifespan state while redis_manager.close() is suspended at `at`, and
\* once it returned or raised (main.py:51-54: logged, not raised).
LsCloseState(at) ==
    CASE at = "client_ok" -> "sd_client_ok"
      [] at = "client_err" -> "sd_client_err"
      [] at = "pool_ok" -> "sd_pool_ok"
      [] at = "pool_err" -> "sd_pool_err"
      [] at = "done" -> "stopped"
      [] at = "raised" -> "stopped"

LsCloseAt(l) ==
    CASE l = "sd_client_ok" -> "client_ok"
      [] l = "sd_client_err" -> "client_err"
      [] l = "sd_pool_ok" -> "pool_ok"
      [] l = "sd_pool_err" -> "pool_err"

\* main.py:51  await redis_manager.close(), up to its first await.
LsRedisClose(o) ==
    LET r == RedisCloseBegin(rm, pools, clients, o)
    IN  /\ rm' = r.m
        /\ pools' = r.pools
        /\ clients' = r.clients
        /\ ls' = LsCloseState(r.at)
        /\ ls_log' = Append(ls_log, "redis_close")

\* main.py:49-51: shutdown from its first line to the first await that suspends.
LsShutdown(o, conc) ==
    /\ ls = "serving"
    /\ LifespanCanStart(conc)
    /\ LET r == DbCloseBegin(db, engines, o)
       IN  /\ engines' = r.engines
           /\ IF r.at = "done"
              THEN \E ro \in Outcomes :
                     LET rr == RedisCloseBegin(rm, pools, clients, ro)
                     IN  /\ rm' = rr.m
                         /\ pools' = rr.pools
                         /\ clients' = rr.clients
                         /\ ls' = LsCloseState(rr.at)
                         /\ ls_log' = ls_log \o <<"db_close", "redis_close">>
                         /\ hist' = NoteClose(NoteClose(hist, "db"), "redis")
              ELSE /\ ls' = IF r.at = "dispose_ok" THEN "sd_dispose_ok"
                                                   ELSE "sd_dispose_err"
                   /\ ls_log' = Append(ls_log, "db_close")
                   /\ hist' = NoteClose(hist, "db")
                   /\ UNCHANGED <<rm, pools, clients>>
    /\ UNCHANGED <<environment, db, pc, op, res, scope, open_sessions>>
    /\ UNCHANGED <<hrvars, cfgvars>>

\* main.py:50-54: db_manager.close() resumed from engine.dispose().  What it
\* raises is caught by the one except clause of the shutdown block.
LsDbCloseResume(o) ==
    /\ ls \in {"sd_dispose_ok", "sd_dispose_err"}
    /\ IF ls = "sd_dispose_ok"
       THEN /\ db' = DbCloseEnd(db)
            /\ LsRedisClose(o)
            /\ hist' = NoteClose(hist, "redis")
       ELSE /\ ls' = "stopped"
            /\ ls_log' = Append(ls_log, "raised")
            /\ UNCHANGED <<db, rm, pools, clients, hist>>
    /\ UNCHANGED <<environment, engines, pc, op, res, scope, open_sessions>>
    /\ UNCHANGED <<hrvars, cfgvars>>

\* main.py:51-54: redis_manager.close() resumed from an aclose().
LsRedisCloseResume(o) ==
    /\ ls \in {"sd_client_ok", "sd_client_err", "sd_pool_ok", "sd_pool_err"}
    /\ LET r == RedisCloseContinue(rm, pools, clients, LsCloseAt(ls), o)
       IN  /\ rm' = r.m
           /\ pools' = r.pools
           /\ clients' = r.clients
           /\ ls' = LsCloseState(r.at)
           /\ ls_log' = IF r.at = "raised" THEN Append(ls_log, "raised") ELSE ls_log
    /\ UNCHANGED <<environment, db, engines, pc, op, res, scope, hist,
                   open_sessions>>
    /\ UNCHANGED <<hrvars, cfgvars>>

\* ----------------------------------------------------- main.py: GET /health
\* How db.execute() and redis.ping() may end in the handler: "ok", or an
\* Exception whose str() is the text.
CheckOutcomes == {"ok", "connection refused", "timeout"}

\* main.py:81-86
HealthStatusNew(env) ==
    [status |-> "healthy", database |-> "connected", redis |-> "connected",
     environment |-> env]

\* main.py:88-93: db.execute() returned or raised e, str(e) = o.
AfterDbCheck(hs, o) ==
    IF o = "ok" THEN [hs EXCEPT !.database = "connected"]
    ELSE [hs EXCEPT !.status = "degraded", !.database = "error: " \o o]

AfterRedisCheckStatusKept(hs, o) ==
    IF o = "ok" THEN [hs EXCEPT !.redis = "connected"]
    ELSE [hs EXCEPT !.redis = "error: " \o o]

\* main.py:96-101: redis.ping() returned or raised e, str(e) = o.
AfterRedisCheck(hs, o) ==
    IF o = "ok" THEN [hs EXCEPT !.redis = "connected"]
    ELSE [hs EXCEPT !.status = "degraded", !.redis = "error: " \o o]

\* main.py:76-89: the dependencies are resolved in the order of the parameters,
\* get_db (database.py:118-121) then get_redis (redis_client.py:117-121), and
\* the handler runs up to its await of db.execute().  The RuntimeError of
\* get_redis is thrown into the get_db scope, already entered.
HealthRouteEnter(t, conc) ==
    /\ CanStart(t, conc)
    /\ op' = [op EXCEPT ![t] = "health_route"]
    /\ checks' = [checks EXCEPT ![t] = NoChecks]
    /\ IF GetSessionRefuses(db)
       THEN /\ Return(t, "RuntimeError", "none", 0)
            /\ scope' = [scope EXCEPT ![t] = NoScope]
            /\ health_status' = [health_status EXCEPT ![t] = NoHealthStatus]
            /\ open_sessions' = open_sessions
       ELSE LET sc == [NoScope EXCEPT !.session = db.session_factory]
            IN  /\ open_sessions' = open_sessions + 1
                /\ res' = [res EXCEPT ![t] = NoRes]
                /\ IF GetRedisRefuses(rm)
                   THEN /\ scope' = [scope EXCEPT ![t] =
                              [AfterBody(sc, "Exception").sc EXCEPT !.exc = "RuntimeError"]]
                        /\ pc' = [pc EXCEPT ![t] = "gs_rollback"]
                        /\ health_status' = [health_status EXCEPT ![t] = NoHealthStatus]
                   ELSE /\ scope' = [scope EXCEPT ![t] = sc]
                        /\ pc' = [pc EXCEPT ![t] = "hr_query"]
                        /\ health_status' =
                             [health_status EXCEPT ![t] = HealthStatusNew(environment)]
    /\ UNCHANGED <<environment, db, engines, rm, pools, clients, ls, hist, ls_log>>
    /\ UNCHANGED cfgvars

\* main.py:88-97: db.execute() ended; the handler goes on to redis.ping().
HealthRouteQuery(t, o) ==
    /\ pc[t] = "hr_query"
    /\ health_status' = [health_status EXCEPT ![t] = AfterDbCheck(@, o)]
    /\ checks' = [checks EXCEPT ![t].db = o]
    /\ pc' = [pc EXCEPT ![t] = "hr_ping"]
    /\ UNCHANGED <<environment, db, engines, rm, pools, clients, ls, op, res, scope,
                   hist, open_sessions, ls_log>>
    /\ UNCHANGED cfgvars

\* main.py:96-103: redis.ping() ended and the handler returned health_status;
\* control is back in get_session() after its yield (database.py:88).
HealthRoutePing(t, o) ==
    /\ pc[t] = "hr_ping"
    /\ health_status' = [health_status EXCEPT ![t] = AfterRedisCheck(@, o)]
    /\ checks' = [checks EXCEPT ![t].redis = o]
    /\ LET r == AfterBody(scope[t], "ok")
       IN  /\ scope' = [scope EXCEPT ![t] = r.sc]
           /\ pc' = [pc EXCEPT ![t] = r.at]
           /\ open_sessions' = open_sessions - (r.sc.closes - scope[t].closes)
    /\ UNCHANGED <<environment, db, engines, rm, pools, clients, ls, op, res, hist,
                   ls_log>>
    /\ UNCHANGED cfgvars

\* ------------------------------------------------------ config.py: get_settings
\* Everything but the configuration.
appvars == <<environment, db, engines, rm, pools, clients, ls, pc, op, res, scope,
             hist, open_sessions, ls_log, health_status, checks>>

\* config.py:78-81  get_settings()
GetSettings ==
    /\ settings' = GetSettingsResult(settings, environ)
    /\ UNCHANGED <<appvars, environ, redis_dsn>>

\* config.py:53-58  settings.REDIS_DSN is read
ReadRedisDsn ==
    /\ settings.state = "ok"
    /\ redis_dsn' = REDIS_DSN(settings.obj)
    /\ UNCHANGED <<appvars, environ, settings>>

\* ------------------------------------------------------------ specification
TaskStep(t, conc) ==
    \/ \E f \in DbFailPoints : DbInitializeCall(t, f, conc)
    \/ \E o \in Outcomes : DbCloseCall(t, o, conc)
    \/ DbCloseResume(t)
    \/ \E o \in ScopeOps : GetSessionEnter(t, o, conc)
    \/ \E b \in BodyOutcomes : ScopeBody(t, b)
    \/ \E o \in Outcomes : ScopeCommit(t, o)
    \/ \E o \in Outcomes : ScopeRollback(t, o)
    \/ \E o \in Outcomes : ScopeClose(t, o)
    \/ \E f \in RedisFailPoints : RedisInitializeCall(t, f, conc)
    \/ \E o \in Outcomes : RedisInitializePing(t, o)
    \/ \E o \in Outcomes : RedisCloseCall(t, o, conc)
    \/ \E o \in Outcomes : RedisCloseResume(t, o)
    \/ \E o \in DirectOps : GetClientCall(t, o, conc)
    \/ \E o \in ContextOps : GetClientContextEnter(t, o, conc)
    \/ \E o \in Outcomes : ClientContextBody(t, o)
    \/ RedisHealthCheckCall(t, conc)
    \/ \E o \in Outcomes : RedisHealthCheckPing(t, o)

LifespanStep(conc) ==
    \/ \E e \in Environments, f \in DbFailPoints, g \in RedisFailPoints :
            LsStartup(e, f, g, conc)
    \/ \E o \in Outcomes, g \in RedisFailPoints : LsSchema(o, g)
    \/ \E o \in Outcomes : LsPing(o)
    \/ \E o \in Outcomes : LsShutdown(o, conc)
    \/ \E o \in Outcomes : LsDbCloseResume(o)
    \/ \E o \in Outcomes : LsRedisCloseResume(o)

\* What a request handler does with the managers while the application serves.
RequestStep(t) ==
    \/ ls = "serving" /\ \E o \in ScopeOps : GetSessionEnter(t, o, FALSE)
    \/ \E b \in BodyOutcomes : ScopeBody(t, b)
    \/ \E o \in Outcomes : ScopeCommit(t, o)
    \/ \E o \in Outcomes : ScopeRollback(t, o)
    \/ \E o \in Outcomes : ScopeClose(t, o)
    \/ ls = "serving" /\ \E o \in DirectOps : GetClientCall(t, o, FALSE)
    \/ ls = "serving" /\ \E o \in ContextOps : GetClientContextEnter(t, o, FALSE)
    \/ \E o \in Outcomes : ClientContextBody(t, o)
    \/ ls = "serving" /\ RedisHealthCheckCall(t, FALSE)
    \/ \E o \in Outcomes : RedisHealthCheckPing(t, o)
    \/ ls = "serving" /\ HealthRouteEnter(t, FALSE)
    \/ \E o \in CheckOutcomes : HealthRouteQuery(t, o)
    \/ \E o \in CheckOutcomes : HealthRoutePing(t, o)

\* One caller at a time: every call runs to its end before the next begins.
SeqTasks == {1}

\* The managers used directly, one call after the other.
Next == \E t \in SeqTasks : TaskStep(t, FALSE)

Spec == Init /\ [][Next]_vars

\* The application: the lifespan hook, and requests while it serves.
NextApp == LifespanStep(FALSE) \/ \E t \in SeqTasks : RequestStep(t)

SpecApp == Init /\ [][NextApp]_vars

\* Cooperative interleaving on one manager: any coroutine may run at any await
\* of another.
ConcRedisStep(t) ==
    \/ \E f \in RedisFailPoints : RedisInitializeCall(t, f, TRUE)
    \/ \E o \in Outcomes : RedisInitializePing(t, o)
    \/ \E o \in Outcomes : RedisCloseCall(t, o, TRUE)
    \/ \E o \in Outcomes : RedisCloseResume(t, o)
    \/ \E o \in DirectOps : GetClientCall(t, o, TRUE)
    \/ \E o \in ContextOps : GetClientContextEnter(t, o, TRUE)
    \/ \E o \in Outcomes : ClientContextBody(t, o)
    \/ RedisHealthCheckCall(t, TRUE)
    \/ \E o \in Outcomes : RedisHealthCheckPing(t, o)

NextConcRedis == \E t \in Tasks : ConcRedisStep(t)

SpecConcRedis == Init /\ [][NextConcRedis]_vars

ConcDbStep(t) ==
    \/ \E f \in DbFailPoints : DbInitializeCall(t, f, TRUE)
    \/ \E o \in Outcomes : DbCloseCall(t, o, TRUE)
    \/ DbCloseResume(t)
    \/ \E o \in ScopeOps : GetSessionEnter(t, o, TRUE)
    \/ \E b \in BodyOutcomes : ScopeBody(t, b)
    \/ \E o \in Outcomes : ScopeCommit(t, o)
    \/ \E o \in Outcomes : ScopeRollback(t, o)
    \/ \E o \in Outcomes : ScopeClose(t, o)

NextConcDb == \E t \in Tasks : ConcDbStep(t)

SpecConcDb == Init /\ [][NextConcDb]_vars

\* The configuration: Settings() built from any of the environments tried.
InitSettings ==
    /\ InitApp
    /\ environ \in Environs
    /\ settings = NoSettings
    /\ redis_dsn = <<>>

NextSettings == GetSettings \/ ReadRedisDsn

SpecSettings == InitSettings /\ [][NextSettings]_vars

\* ==================================================================== claims
\* The accessors named by the claims, per manager.
DbAccessors == {"get_session", "get_db"}

RedisAccessors == {"get_client", "get_client_context", "set_value", "get_value",
                   "delete_key"}

SessionRefused(t) ==
    pc[t] = "idle" /\ res[t].raised = "RuntimeError" /\ scope[t].session = 0

SessionHanded(t) == scope[t].session # 0

ClientRefused(t) ==
    pc[t] = "idle" /\ res[t].raised = "RuntimeError" /\ res[t].value = "none"

ClientHanded(t) == res[t].value = "client" /\ res[t].handle # 0

\* C1: after any sequence of initialize() and close() calls, get_session,
\* get_client, get_client_context and set_value/get_value/delete_key raise
\* RuntimeError when the manager's latest initialize() has not succeeded, and
\* hand out a session/client when it has and close() was not called since.
C1_Lifecycle ==
    \A t \in Tasks :
      /\ op[t] \in DbAccessors =>
           /\ hist.db = "uninit" => SessionRefused(t)
           /\ hist.db = "init_ok" => SessionHanded(t)
      /\ op[t] \in RedisAccessors =>
           /\ hist.redis = "uninit" => ClientRefused(t)
           /\ hist.redis = "init_ok" => ClientHanded(t)

\* get_client() refused although the failed initialize() left a client behind.
C1_Witness ==
    \E t \in Tasks :
      /\ op[t] = "get_client" /\ ClientRefused(t)
      /\ hist.redis = "uninit" /\ rm.client # 0

\* The get_session() scope of task t has been left.
ScopeExited(t) == pc[t] = "idle" /\ op[t] \in ScopeOps /\ scope[t].session # 0

\* C2 as claimed: a body that completes normally gets commit and no rollback;
\* a body that raises gets rollback, no commit, and its own exception out.
C2_Original ==
    \A t \in Tasks :
      ScopeExited(t) =>
        /\ scope[t].body = "ok" =>
             scope[t].commits = 1 /\ scope[t].rollbacks = 0
        /\ scope[t].body = "Exception" =>
             /\ scope[t].rollbacks = 1 /\ scope[t].commits = 0
             /\ scope[t].exc = "BodyError"

\* C2 amended: a body that completes normally gets one commit, and a rollback
\* exactly when that commit raises; a body that raises an Exception gets one
\* rollback and no commit, and its own exception leaves the scope unless
\* rollback() or close() raises.  (commit, rollback and close return or raise
\* an Exception.)
C2_CommitOrRollback ==
    \A t \in Tasks :
      ScopeExited(t) =>
        /\ scope[t].body = "ok" =>
             /\ scope[t].commits = 1
             /\ scope[t].rollbacks = IF scope[t].commit = "err" THEN 1 ELSE 0
        /\ scope[t].body = "Exception" =>
             /\ scope[t].rollbacks = 1 /\ scope[t].commits = 0
             /\ (scope[t].rollback = "ok" /\ scope[t].close = "ok") =>
                  scope[t].exc = "BodyError"

\* A scope whose body returned and whose commit raised: rolled back.
C2_Witness ==
    \E t \in Tasks :
      /\ ScopeExited(t) /\ scope[t].body = "ok" /\ scope[t].commit = "err"
      /\ scope[t].rollbacks = 1 /\ scope[t].exc = "CommitError"

\* Task t holds a session on which close() has not been called yet.
HoldsSession(t) ==
    pc[t] \in {"gs_yield", "hr_query", "hr_ping", "gs_commit", "gs_rollback"}

\* C3: close() is called exactly once on every session get_session() hands out
\* (get_db and health_check included), on every exit path, and not before the
\* scope is left; the sessions still open are those of the scopes not yet left.
C3_ClosedOnce ==
    /\ \A t \in Tasks :
         /\ ScopeExited(t) => scope[t].closes = 1
         /\ HoldsSession(t) => scope[t].closes = 0
         /\ pc[t] = "gs_close" => scope[t].closes = 1
    /\ open_sessions = Cardinality({t \in Tasks : HoldsSession(t)})

\* The longest exit path: commit raised, then rollback raised, then close.
C3_Witness ==
    \E t \in Tasks :
      /\ ScopeExited(t) /\ op[t] = "get_db"
      /\ scope[t].commit = "err" /\ scope[t].rollback = "err"
      /\ scope[t].closes = 1 /\ open_sessions = 0

\* C4: initialize() on a manager that is already Initialized does not raise,
\* constructs no engine, pool or client, and leaves the manager's engine,
\* session factory, pool, client and flag as they were.
C4_Idempotent ==
    [][\A t \in Tasks :
         /\ (pc[t] = "idle" /\ op'[t] = "db_initialize" /\ db.initialized) =>
              /\ db' = db /\ engines' = engines
              /\ pc'[t] = "idle" /\ res'[t].raised = "none"
         /\ (pc[t] = "idle" /\ op'[t] = "redis_initialize" /\ rm.initialized) =>
              /\ rm' = rm /\ pools' = pools /\ clients' = clients
              /\ pc'[t] = "idle" /\ res'[t].raised = "none"]_vars

\* A second initialize() has returned on the no-op path: one pool exists.
C4_Witness ==
    \E t \in Tasks :
      /\ pc[t] = "idle" /\ op[t] = "redis_initialize" /\ res[t].value = "warned"
      /\ rm.initialized /\ Len(pools) = 1 /\ Len(clients) = 1

\* C5 as claimed: an initialize() that raised leaves the flag false and the
\* manager without the engine, pool or client that the failed call created.
C5_FailedInitRetainsNothing ==
    \A t \in Tasks :
      (pc[t] = "idle" /\ res[t].raised # "none") =>
        /\ op[t] = "db_initialize" =>
             /\ ~db.initialized
             /\ res[t].handle # 0 => db.engine # res[t].handle
        /\ op[t] = "redis_initialize" =>
             /\ ~rm.initialized
             /\ res[t].handle # 0 =>
                  /\ rm.pool # res[t].handle
                  /\ rm.client # 0 => clients[rm.client].pool # res[t].handle

\* C6 as claimed: once shutdown is over, redis_manager.close() has been
\* attempted after db_manager.close(), whatever db_manager.close() did.
C6_ShutdownClosesBoth ==
    ls = "stopped" =>
      \E i, j \in DOMAIN ls_log :
        i < j /\ ls_log[i] = "db_close" /\ ls_log[j] = "redis_close"

\* C7 as claimed: get_db and get_redis raise the lifecycle error whenever the
\* manager is not Initialized.
C7_AccessorsNeedInitialized ==
    \A t \in Tasks :
      pc[t] = "idle" =>
        /\ (op[t] = "get_db" /\ ~db.initialized) => SessionRefused(t)
        /\ (op[t] = "get_redis" /\ ~rm.initialized) => ClientRefused(t)

LiveEngines == {e \in DOMAIN engines : engines[e] = "live"}

LivePools == {p \in DOMAIN pools : pools[p] = "live"}

\* C8 as claimed: at most one engine and at most one connection pool created
\* by a manager is live at any time.
C8_OneLivePool == Cardinality(LiveEngines) <= 1 /\ Cardinality(LivePools) <= 1

\* C9 as claimed: initialize() calls that overlap at the ping build one pool:
\* two calls suspended at ping() have not each created a pool of their own.
C9_ConcurrentInitOnePool ==
    \A t, u \in Tasks :
      (t # u /\ pc[t] = "ri_ping" /\ pc[u] = "ri_ping") =>
        res[t].handle = res[u].handle

\* C10: health_check() of either manager never raises, whatever the state of
\* the manager; it returns True exactly when the round trip (and, for the
\* database, the session scope around it) succeeded, and False otherwise,
\* also for the lifecycle error of an uninitialized manager.
C10_HealthNeverRaises ==
    \A t \in Tasks :
      pc[t] = "idle" =>
        /\ op[t] = "db_health_check" =>
             /\ res[t].raised = "none" /\ res[t].value \in {"True", "False"}
             /\ res[t].value = "True" <=>
                  (scope[t].session # 0 /\ scope[t].body = "ok"
                   /\ scope[t].exc = "none")
             /\ ~db.initialized => res[t].value = "False"
        /\ op[t] = "redis_health_check" =>
             /\ res[t].raised = "none" /\ res[t].value \in {"True", "False"}
             /\ res[t].value = "True" <=> scope[t].body = "ok"
             /\ rm.client = 0 => res[t].value = "False"

\* After a failed initialize() the client exists; its ping raised and
\* health_check() answered False.
C10_Witness ==
    \E t \in Tasks :
      /\ pc[t] = "idle" /\ op[t] = "redis_health_check"
      /\ rm.client # 0 /\ ~rm.initialized /\ scope[t].body = "err"
      /\ res[t] = [raised |-> "none", value |-> "False", handle |-> 0]

\* What startup does in environment env, in order.
StartupCalls(env) ==
    IF env = "development"
    THEN <<"db_initialize", "create_all", "redis_initialize">>
    ELSE <<"db_initialize", "redis_initialize">>

IsPrefix(a, b) == Len(a) <= Len(b) /\ SubSeq(b, 1, Len(a)) = a

\* The calls of startup, as ls_log has them.
StartupLog ==
    SelectSeq(ls_log, LAMBDA c : c \in {"db_initialize", "create_all", "redis_initialize"})

\* A call of startup raised.
StartupRaised ==
    \E i \in DOMAIN ls_log : ls_log[i] = "raised" /\ ls_log[1] = "db_initialize"
          /\ \A j \in 1..i : ls_log[j] \notin {"db_close", "redis_close"}

\* Startup has not completed: it has not begun, is under way, or has failed.
NotStarted == ls \in {"new", "su_schema", "su_ping", "failed"}

C11_Order ==
    /\ IF environment = "unread"
       THEN IsPrefix(StartupLog, <<"db_initialize">>)
       ELSE IsPrefix(StartupLog, StartupCalls(environment))
    /\ NotStarted =>
         /\ \A t \in Tasks : op[t] = "none" /\ pc[t] = "idle"
         /\ ~db.initialized => Len(StartupLog) <= 1
         /\ ~rm.initialized
    /\ ~NotStarted => StartupLog = StartupCalls(environment)
    /\ StartupRaised <=> ls = "failed"
    /\ StartupRaised => ls_log[Len(ls_log)] = "raised"

C11_Abort ==
    /\ (ls # "serving" /\ ls' = "serving") => db'.initialized /\ rm'.initialized
    /\ ls = "failed" => UNCHANGED vars

\* C11: startup calls db_manager.initialize(), then create_all only in the
\* development environment, then redis_manager.initialize(), in that order; a
\* step that fails is the last one attempted, the lifespan hook ends in the
\* failed state for good, and no request is handled unless every step succeeded.
C11_StartupOrder == []C11_Order /\ [][C11_Abort]_vars

\* Schema creation failed in development: Redis was never touched.
C11_Witness ==
    /\ ls = "failed" /\ environment = "development"
    /\ ls_log = <<"db_initialize", "create_all", "raised">>
    /\ db.initialized /\ rm = RedisManagerNew /\ pools = <<>>

\* The handler of task t has returned its payload.
HandlerReturned(t) == op[t] = "health_route" /\ scope[t].body = "ok"

\* The field of a component whose check ended with o.
ComponentField(o) == IF o = "ok" THEN "connected" ELSE "error: " \o o

\* C12: whatever db.execute() and redis.ping() do in the GET /health handler,
\* both are attempted; status is "healthy" exactly when both succeeded and
\* "degraded" otherwise; each component's field is "connected" exactly when
\* its own check succeeded and "error: " followed by its own error text
\* otherwise.
C12_HealthPayload ==
    \A t \in Tasks :
      /\ pc[t] = "hr_ping" =>
           /\ checks[t].db \in CheckOutcomes
           /\ health_status[t].database = ComponentField(checks[t].db)
      /\ HandlerReturned(t) =>
           /\ checks[t].db \in CheckOutcomes /\ checks[t].redis \in CheckOutcomes
           /\ health_status[t].status =
                IF checks[t].db = "ok" /\ checks[t].redis = "ok"
                THEN "healthy" ELSE "degraded"
           /\ health_status[t].database = ComponentField(checks[t].db)
           /\ health_status[t].redis = ComponentField(checks[t].redis)
           /\ health_status[t].database = "connected" <=> checks[t].db = "ok"
           /\ health_status[t].redis = "connected" <=> checks[t].redis = "ok"
           /\ health_status[t].environment = environment

\* Only the cache is unreachable: degraded, the database still "connected".
C12_Witness ==
    \E t \in Tasks :
      /\ HandlerReturned(t)
      /\ checks[t] = [db |-> "ok", redis |-> "timeout"]
      /\ health_status[t].status = "degraded"
      /\ health_status[t].database = "connected"
      /\ health_status[t].redis = "error: timeout"

\* C13 as claimed: after a successful startup a GET /health request never
\* raises, neither from get_db / get_redis, nor from the handler, nor from the
\* commit, rollback and close of the get_db scope once the handler returned.
C13_HealthRouteNeverRaises ==
    \A t \in Tasks :
      (op[t] = "health_route" /\ pc[t] = "idle") => res[t].raised = "none"

\* C14: close() on a manager that was never initialized (no initialize() of it
\* has built an engine, pool or client) returns at once without raising,
\* disposes and closes nothing, and leaves handles and flag as constructed.
C14_CloseNeverInitialized ==
    [][\A t \in Tasks :
         /\ (pc[t] = "idle" /\ op'[t] = "db_close" /\ hist.db = "uninit"
             /\ engines = <<>>) =>
              /\ db' = db /\ db' = DatabaseManagerNew /\ engines' = engines
              /\ pc'[t] = "idle" /\ res'[t].raised = "none"
         /\ (pc[t] = "idle" /\ op'[t] = "redis_close" /\ hist.redis = "uninit"
             /\ pools = <<>> /\ clients = <<>>) =>
              /\ rm' = rm /\ rm' = RedisManagerNew
              /\ pools' = pools /\ clients' = clients
              /\ pc'[t] = "idle" /\ res'[t].raised = "none"]_vars

\* close() has returned on a RedisManager on which initialize() had only
\* failed to build its pool; the DatabaseManager is untouched.
C14_Witness ==
    \E t \in Tasks :
      /\ pc[t] = "idle" /\ op[t] = "redis_close" /\ res[t].raised = "none"
      /\ rm = RedisManagerNew /\ pools = <<>> /\ clients = <<>>
      /\ hist.redis = "uninit" /\ db = DatabaseManagerNew

\* C15: with ENVIRONMENT = production, Settings() fails when SECRET_KEY has
\* fewer than 32 characters and succeeds when it has 32 or more, for every key
\* length tried and every value of the other fields.
C15_ProductionSecretKey ==
    (settings.state # "uncached" /\ environ.ENVIRONMENT = "production") =>
      /\ Len(environ.SECRET_KEY) < 32 => settings.state = "ValidationError"
      /\ Len(environ.SECRET_KEY) >= 32 =>
           settings.state = "ok" /\ settings.obj = environ

\* The shortest key production accepts.
C15_Witness ==
    /\ environ.ENVIRONMENT = "production" /\ Len(environ.SECRET_KEY) = 32
    /\ settings.state = "ok" /\ settings.obj.SECRET_KEY = Key(32)

\* The characters of the DSN from position k on.
DsnFrom(dsn, k) == SubSeq(dsn, k, Len(dsn))

\* dsn starts with the characters of w at position k.
DsnHas(dsn, k, w) == SubSeq(dsn, k, k + Len(w) - 1) = w

\* ":6379/<db>", the end of every DSN tried.
PortAndDb(n) ==
    <<":", "6", "3", "7", "9", "/">>
      \o <<CASE n = 0 -> "0" [] n = 1 -> "1" [] n = 2 -> "2" [] OTHER -> "?">>

\* C16: REDIS_DSN is "redis://" ":" password "@" host ":" port "/" db when a
\* cache password is configured (REDIS_PASSWORD holds a non-empty string), and
\* "redis://" host ":" port "/" db, with no "@" in it, when none is (None or
\* the empty string).
C16_RedisDsnCredentials ==
    redis_dsn # <<>> =>
      LET o  == settings.obj
          pw == o.REDIS_PASSWORD
      IN  /\ DsnHas(redis_dsn, 1, <<"r", "e", "d", "i", "s", ":", "/", "/">>)
          /\ (pw.some /\ pw.val # <<>>) =>
               /\ DsnHas(redis_dsn, 9, <<":">> \o pw.val \o <<"@">>)
               /\ DsnFrom(redis_dsn, 11 + Len(pw.val))
                    = o.REDIS_HOST \o PortAndDb(o.REDIS_DB)
          /\ ~(pw.some /\ pw.val # <<>>) =>
               /\ DsnFrom(redis_dsn, 9) = o.REDIS_HOST \o PortAndDb(o.REDIS_DB)
               /\ \A i \in DOMAIN redis_dsn : redis_dsn[i] # "@"

\* "redis://:pw@localhost:6379/1"
C16_Witness ==
    /\ settings.state = "ok" /\ settings.obj.REDIS_PASSWORD = Some(<<"p", "w">>)
    /\ redis_dsn = <<"r", "e", "d", "i", "s", ":", "/", "/", ":", "p", "w", "@",
                     "l", "o", "c", "a", "l", "h", "o", "s", "t", ":",
                     "6", "3", "7", "9", "/", "1">>

\* Task t is suspended inside a call of RedisManager.close().
InRedisClose(t) == pc[t] \in {"rc_client_ok", "rc_client_err", "rc_pool_ok", "rc_pool_err"}

\* C17 as claimed: close() of RedisManager closes the client before the pool
\* and resets the flag last; in every state it is called in it returns without
\* raising and leaves the manager Uninitialized, its client and pool closed.
C17_RedisCloseAlwaysCloses ==
    \A t \in Tasks :
      /\ (op[t] = "redis_close" /\ InRedisClose(t) /\ rm.pool # 0
          /\ pools[rm.pool] = "closed" /\ rm.client # 0) =>
           clients[rm.client].closed
      /\ (op[t] = "redis_close" /\ pc[t] = "idle") =>
           /\ res[t].raised = "none"
           /\ ~rm.initialized
           /\ rm.client # 0 => clients[rm.client].closed
           /\ rm.pool # 0 => pools[rm.pool] = "closed"

\* Task t took a step that began a call of one of the operations ops.
Called(t, ops) ==
    /\ pc[t] = "idle" /\ op'[t] \in ops
    /\ op'[t] # op[t] \/ res'[t] # res[t] \/ pc'[t] # pc[t]

\* A close() of the manager is suspended in one of its awaits.
DbCloseInProgress == \E u \in Tasks : pc[u] \in {"dc_dispose_ok", "dc_dispose_err"}

RedisCloseInProgress == \E u \in Tasks : InRedisClose(u)

\* C18 as claimed: while a close() is suspended before it resets the flag, no
\* accessor hands out a session of an engine that close() has disposed, nor a
\* client that close() has closed or whose pool it has closed.
C18_NoHandOutDuringClose ==
    [][\A t \in Tasks :
         /\ (Called(t, DbAccessors) /\ DbCloseInProgress /\ scope'[t].session # 0) =>
              engines[scope'[t].session] = "live"
         /\ (Called(t, RedisAccessors) /\ RedisCloseInProgress
             /\ res'[t].value = "client") =>
              /\ ~clients[res'[t].handle].closed
              /\ pools[clients[res'[t].handle].pool] = "live"]_vars

\* The latest initialize() of the manager returned, and a close() called
\* since has completed: what it built is disposed / closed.
DbClosed ==
    /\ hist.db = "closed" /\ db.engine # 0 /\ engines[db.engine] = "disposed"
    /\ \A u \in Tasks : pc[u] = "idle"

RedisClosed ==
    /\ hist.redis = "closed" /\ rm.pool # 0 /\ pools[rm.pool] = "closed"
    /\ clients[rm.client].closed
    /\ \A u \in Tasks : pc[u] = "idle"

C19_Reinitialize ==
    \A t \in Tasks :
      /\ (Called(t, DbAccessors) /\ DbClosed) =>
           pc'[t] = "idle" /\ res'[t].raised = "RuntimeError" /\ scope'[t].session = 0
      /\ (Called(t, RedisAccessors) /\ RedisClosed) =>
           pc'[t] = "idle" /\ res'[t].raised = "RuntimeError"
      /\ (Called(t, {"db_initialize"}) /\ DbClosed /\ res'[t].raised = "none") =>
           /\ res'[t].value # "warned"
           /\ engines' = Append(engines, "live")
           /\ db'.engine = Len(engines') /\ db'.session_factory = db'.engine
           /\ db'.initialized
      /\ (Called(t, {"redis_initialize"}) /\ RedisClosed /\ pc'[t] = "ri_ping") =>
           /\ pools' = Append(pools, "live")
           /\ rm'.pool = Len(pools')
           /\ clients' = Append(clients, [pool |-> rm'.pool, closed |-> FALSE])
           /\ rm'.client = Len(clients')
      /\ (Called(t, {"redis_initialize"}) /\ RedisClosed) => res'[t].value # "warned"
      /\ (pc[t] = "ri_ping" /\ pc'[t] = "idle" /\ res'[t].raised = "none") =>
           rm'.initialized /\ rm'.pool = res'[t].handle

\* The manager holds an engine (a pool and a client) built after an earlier
\* one was disposed (closed), and no close() has touched it.
DbReinitialized ==
    /\ db.initialized /\ db.engine # 0 /\ engines[db.engine] = "live"
    /\ \E e \in 1..(db.engine - 1) : engines[e] = "disposed"

RedisReinitialized ==
    /\ rm.initialized /\ rm.pool # 0 /\ pools[rm.pool] = "live"
    /\ ~clients[rm.client].closed /\ clients[rm.client].pool = rm.pool
    /\ \E p \in 1..(rm.pool - 1) : pools[p] = "closed"

\* An accessor returned on a manager initialized again after a close().
C19_Served ==
    \A t \in Tasks :
      /\ (op[t] \in DbAccessors /\ DbReinitialized) =>
           scope[t].session = db.engine /\ res[t].raised # "RuntimeError"
      /\ (op[t] \in RedisAccessors /\ RedisReinitialized) =>
           ClientHanded(t) /\ res[t].handle = rm.client

\* C19: once initialize() has succeeded and close() has completed, the
\* accessors of the manager raise RuntimeError; the next initialize() is not
\* the already-initialized no-op but builds a new engine (a new pool and
\* client), and once it has returned the accessors hand out a session / the
\* client of what it built; for both managers, however often this alternates.
C19_ReinitializeAfterClose == []C19_Served /\ [][C19_Reinitialize]_vars

\* The second pool serves get_client() after the first was closed.
C19_Witness ==
    \E t \in Tasks :
      /\ op[t] = "get_client" /\ ClientHanded(t) /\ res[t].handle = 2
      /\ pools = <<"closed", "live">> /\ hist.redis = "init_ok"
      /\ engines = <<"disposed", "live">> /\ hist.db = "init_ok"

\* No engine, pool or client has been disposed or closed.
NothingClosed ==
    /\ \A e \in DOMAIN engines : engines[e] = "live"
    /\ \A p \in DOMAIN pools : pools[p] = "live"
    /\ \A c \in DOMAIN clients : ~clients[c].closed

\* C20: when startup aborts, the lifespan hook calls neither db_manager.close()
\* nor redis_manager.close(): a DatabaseManager whose initialize() succeeded
\* stays Initialized with its engine undisposed, and the pool that a failed
\* redis_manager.initialize() created stays open, still held by the manager.
C20_NoTeardownOnAbort ==
    ls = "failed" =>
      /\ \A i \in DOMAIN ls_log : ls_log[i] \notin {"db_close", "redis_close"}
      /\ NothingClosed
      /\ hist.db = "init_ok" =>
           db.initialized /\ db.engine # 0 /\ engines[db.engine] = "live"
      /\ pools # <<>> =>
           rm.pool = Len(pools) /\ pools[rm.pool] = "live" /\ ~rm.initialized

\* The ping of redis_manager.initialize() raised: engine and pool stay open.
C20_Witness ==
    /\ ls = "failed" /\ db.initialized /\ engines = <<"live">>
    /\ pools = <<"live">> /\ rm = [pool |-> 1, client |-> 1, initialized |-> FALSE]
    /\ ls_log[Len(ls_log)] = "raised"

====
